---- MODULE Spec2Model ----
(***************************************************************************)
(* Model of PictureManagerPlugin (src/main.py): the trigger registry (three *)
(* category maps), its persisted JSON document, the feature flag and the   *)
(* command handlers that read or change them.                              *)
(*                                                                         *)
(* Strings whose letter case matters (trigger text, Content-Type headers)  *)
(* are sequences of tokens, so that str.lower() is a real conversion. URLs *)
(* are opaque strings: no handler looks inside a URL it stores.            *)
(***************************************************************************)
EXTENDS Integers, Sequences, FiniteSets, TLC

\* ------------------------------------------------------------------ bounds
\* Largest number of URLs the registry holds in total (adds are cut off there).
MaxEntries == 3
\* Largest number of URLs the registry holds while the disk is unreliable.
MaxFaultyEntries == 2
\* Largest number of failed file writes in one behaviour.
MaxWriteFailures == 1
MaxTextLen == 5
MaxLimit == 3
MaxFields == 3
MaxCandidates == 3
MaxCount == 3
\* len(result["content"]) > 1000 and _split_long_text(content, 1500), scaled down
SplitThreshold == 2
SplitLimit == 3

\* ------------------------------------------------------------------ inputs
\* Trigger texts as typed by users: two spellings of one keyword and another keyword.
TriggerInputs == { <<"c", "a">>, <<"C", "A">>, <<"d">> }
\* Trigger texts typed to look a trigger up (send, modify, delete, bare message):
\* the spelling that differs from the stored key, and the other keyword.
LookupInputs == { <<"C", "A">>, <<"d">> }
\* The keyword "服务器" of list_servers: the second keyword of TriggerInputs is
\* that text, so its triggers are the server triggers.
ServerKeyword == "d"
URLs == { "u1", "u2" }
\* The URL typed together with a trigger text: each spelling of the first keyword
\* comes with its own URL, so its lists can hold different URLs.
UrlInputs(t) == IF t = <<"C", "A">> THEN { "u2" } ELSE { "u1" }
\* index argument of modify/delete; NoIndex is Python's None (index omitted).
NoIndex == [given |-> FALSE, value |-> 0]
GivenIndex(i) == [given |-> TRUE, value |-> i]
IndexValues == 0 .. MaxEntries
\* Content-Type header values of a probe response; <<>> is a missing header
\* (headers.get('Content-Type', '') gives '').
ContentTypes == { <<"image/", "png">>, <<"Video/", "mp4">>, <<"text/", "html">>,
                  <<"Application/json">>, <<"application/", "octet-stream">>, <<>> }
\* Outcomes of the probe GET of add_api_or_url.
ProbeOutcomes == { "client_error", "other_error", "not_200", "ok_200" }
\* Outcomes of the file write in save_api_config: written; open() raised and the
\* file is untouched; the file was truncated by open() and the dump failed.
WriteOutcomes == { "ok", "fail_untouched", "fail_truncated" }

\* --------------------------------------------------------------- str.lower
LowerTok(c) ==
    CASE c = "C" -> "c"
      [] c = "A" -> "a"
      [] c = "D" -> "d"
      [] c = "Video/" -> "video/"
      [] c = "Image/" -> "image/"
      [] c = "Application/json" -> "application/json"
      [] c = ".MP4" -> ".mp4"
      [] c = ".JPG" -> ".jpg"
      [] OTHER -> c

Lower(s) == [i \in DOMAIN s |-> LowerTok(s[i])]

IsLower(s) == Lower(s) = s

\* str.startswith(tuple of prefixes): every prefix used by the code is one token.
StartsWith(s, prefixes) == Len(s) > 0 /\ s[1] \in prefixes

\* ------------------------------------------------------------ dict helpers
EmptyMap == [k \in {} |-> <<>>]

\* d[k] = v for a new or existing key.
DictSet(d, k, v) == [x \in (DOMAIN d) \cup {k} |-> IF x = k THEN v ELSE d[x]]

\* del d[k]
DictDel(d, k) == [x \in (DOMAIN d) \ {k} |-> d[x]]

\* Python sequence position: a negative position counts from the end.
PyPos(pos, n) == IF pos < 0 THEN pos + n ELSE pos

\* lst[pos] = v  (pos is Python's 0-based position)
ListSet(lst, pos, v) == [lst EXCEPT ![PyPos(pos, Len(lst)) + 1] = v]

\* lst.pop(pos)
ListPop(lst, pos) ==
    LET p == PyPos(pos, Len(lst)) + 1
    IN  [i \in 1 .. (Len(lst) - 1) |-> IF i < p THEN lst[i] ELSE lst[i + 1]]

\* Number of URLs stored in one map / in the registry.
RECURSIVE SumLens(_, _)
SumLens(d, keys) ==
    IF keys = {} THEN 0
    ELSE LET k == CHOOSE x \in keys : TRUE
         IN  Len(d[k]) + SumLens(d, keys \ {k})

MapSize(d) == SumLens(d, DOMAIN d)

\* --------------------------------------------------- the persisted document
\* JSON values found under a trigger key: a string (legacy) or an array of strings.
JStr(v) == [type |-> "string", str |-> v, items |-> <<>>]
JArr(lst) == [type |-> "array", str |-> "", items |-> lst]

\* DATA_FILE: missing, not parseable as JSON, or a JSON object of three tables.
AbsentDoc == [state |-> "absent", api_list |-> EmptyMap,
              direct_url_list |-> EmptyMap, text_api_list |-> EmptyMap]
CorruptDoc == [state |-> "corrupt", api_list |-> EmptyMap,
               direct_url_list |-> EmptyMap, text_api_list |-> EmptyMap]

EmptyRegistry == [api_list |-> EmptyMap, direct_url_list |-> EmptyMap,
                  text_api_list |-> EmptyMap]

Categories == { "api_list", "direct_url_list", "text_api_list" }

\* v if isinstance(v, list) else [v]
LoadValue_NoWrap(v) == v.items
LoadValue(v) == IF v.type = "array" THEN v.items ELSE <<v.str>>

LoadTable(t) == [k \in DOMAIN t |-> LoadValue(t[k])]

\* load_api_config: the registry read from the document d.
load_api_config(d) ==
    IF d.state = "json"
    THEN [api_list |-> LoadTable(d.api_list),
          direct_url_list |-> LoadTable(d.direct_url_list),
          text_api_list |-> LoadTable(d.text_api_list)]
    ELSE EmptyRegistry

DumpTable(m) == [k \in DOMAIN m |-> JArr(m[k])]

\* The data dict save_api_config hands to json.dump.
SaveData_NoText(r) ==
    [state |-> "json", api_list |-> DumpTable(r.api_list),
     direct_url_list |-> DumpTable(r.direct_url_list),
     text_api_list |-> EmptyMap]
SaveData(r) ==
    [state |-> "json", api_list |-> DumpTable(r.api_list),
     direct_url_list |-> DumpTable(r.direct_url_list),
     text_api_list |-> DumpTable(r.text_api_list)]

\* save_api_config: the document after the write attempt with outcome w;
\* an exception of the write is caught (and logged) inside.
save_api_config(r, old, w) ==
    CASE w = "ok" -> SaveData(r)
      [] w = "fail_untouched" -> old
      [] w = "fail_truncated" -> CorruptDoc

\* Keys the handlers can have stored: the lower-cased trigger inputs.
StoredKeys == { Lower(t) : t \in TriggerInputs }

\* Documents found at process start: none, an unreadable one, or one table entry
\* written by this plugin (an array) or by an older version (a single string).
InitValues == { JStr("u1"), JArr(<<"u2", "u1">>) }
InitDocs ==
    { AbsentDoc, CorruptDoc } \cup
    { [state |-> "json",
       api_list |-> IF c = "api_list" THEN DictSet(EmptyMap, k, v) ELSE EmptyMap,
       direct_url_list |-> IF c = "direct_url_list" THEN DictSet(EmptyMap, k, v) ELSE EmptyMap,
       text_api_list |-> IF c = "text_api_list" THEN DictSet(EmptyMap, k, v) ELSE EmptyMap]
      : c \in Categories, k \in StoredKeys, v \in InitValues }

\* -------------------------------------------------------------------- state
VARIABLES
    api_list,          \* self.api_list: trigger -> list of media-API URLs
    direct_url_list,   \* self.direct_url_list: trigger -> list of direct media URLs
    text_api_list,     \* self.text_api_list: trigger -> list of text-API URLs
    is_enabled,        \* self.is_enabled
    doc,               \* contents of DATA_FILE
    faults_left,       \* file writes that may still fail
    cmd,               \* the handler run last, with the arguments it read
    reply,             \* what that handler yielded to the chat
    pre,               \* registry and document as that handler found them
    view,              \* the view_picture run in flight or last finished
    servers,           \* what the last list_servers run collected and yielded
    call,              \* the helper method called last, with its arguments
    result,            \* what that call returned
    event              \* the event handled last: stop_event() called, on_message branch taken

vars == << api_list, direct_url_list, text_api_list, is_enabled, doc, faults_left,
           cmd, reply, pre, view, servers, call, result, event >>

\* What the registry commands never touch.
sideVars == << view, servers, call, result >>

\* No view_picture run, no list_servers run and no helper call yet.
NoRun == [pc |-> "idle"]
NoCall == [fn |-> "none"]
NotReturned == [done |-> FALSE]

\* An event as the framework hands it to a handler, and one on which on_message
\* called event.stop_event() after the branch `matched`.
FreshEvent == [stopped |-> FALSE, matched |-> "none"]
StoppedEvent(matched) == [stopped |-> TRUE, matched |-> matched]

Registry == [api_list |-> api_list, direct_url_list |-> direct_url_list,
             text_api_list |-> text_api_list]

SetRegistry(r) ==
    /\ api_list' = r.api_list
    /\ direct_url_list' = r.direct_url_list
    /\ text_api_list' = r.text_api_list

RegistrySize(r) == MapSize(r.api_list) + MapSize(r.direct_url_list) + MapSize(r.text_api_list)

Cmd(op, trigger, index, url, outcome, ctype, write) ==
    [op |-> op, trigger |-> trigger, index |-> index, url |-> url,
     outcome |-> outcome, ctype |-> ctype, write |-> write]

\* What a handler finds when it starts.
Found == [registry |-> Registry, doc |-> doc]

\* A handler that returned at its flag check: it read none of its arguments.
Refused(op) == Cmd(op, <<>>, NoIndex, "", "", <<>>, "none")

\* The state after __init__: the flag from the configuration, the registry loaded.
Constructed ==
    /\ doc \in InitDocs
    /\ is_enabled \in BOOLEAN
    /\ api_list = load_api_config(doc).api_list
    /\ direct_url_list = load_api_config(doc).direct_url_list
    /\ text_api_list = load_api_config(doc).text_api_list
    /\ cmd = Cmd("load", <<>>, NoIndex, "", "", <<>>, "none")
    /\ reply = "none"
    /\ pre = [registry |-> EmptyRegistry, doc |-> doc]
    /\ view = NoRun
    /\ servers = NoRun
    /\ call = NoCall
    /\ result = NotReturned
    /\ event = FreshEvent

\* Every file write succeeds.
Init == Constructed /\ faults_left = 0

\* Up to MaxWriteFailures file writes fail.
InitFaulty == Constructed /\ faults_left = MaxWriteFailures

\* ----------------------------------------------------------------- helpers
\* trigger = trigger.lower()  /  message_str = event.message_str.lower()
NormalizeTrigger_AsTyped(t) == t
NormalizeTrigger(t) == Lower(t)

\* 1 <= index <= len(list)
InRange_FromZero(index, n) == 0 <= index /\ index <= n
InRange(index, n) == 1 <= index /\ index <= n

\* if trigger in d: d[trigger].append(url)  else: d[trigger] = [url]
RegistryAppend(r, cat, k, url) ==
    [r EXCEPT ![cat] = IF k \in DOMAIN @ THEN [@ EXCEPT ![k] = Append(@, url)]
                       ELSE DictSet(@, k, <<url>>)]

\* The category add_api_or_url picks for a probe answered with status 200.
ProbeCategory_NoLower(ct) ==
    IF StartsWith(ct, {"image/", "video/"}) THEN "direct_url_list"
    ELSE IF StartsWith(ct, {"text/", "application/json"}) THEN "text_api_list"
    ELSE "api_list"
ProbeCategory(ct) ==
    LET content_type == Lower(ct)
    IN  IF StartsWith(content_type, {"image/", "video/"}) THEN "direct_url_list"
        ELSE IF StartsWith(content_type, {"text/", "application/json"}) THEN "text_api_list"
        ELSE "api_list"

AddedReply(cat) ==
    CASE cat = "direct_url_list" -> "added_direct"
      [] cat = "text_api_list" -> "added_text"
      [] cat = "api_list" -> "added_api"

\* The if/elif chain of modify_api_address and delete_api: the first map holding k.
FirstCategory(r, k) ==
    IF k \in DOMAIN r.api_list THEN "api_list"
    ELSE IF k \in DOMAIN r.direct_url_list THEN "direct_url_list"
    ELSE IF k \in DOMAIN r.text_api_list THEN "text_api_list"
    ELSE "none"

\* d[trigger][index - 1] = new_url
ModifyEntry(r, cat, k, index, new_url) ==
    [r EXCEPT ![cat] = [@ EXCEPT ![k] = ListSet(@, index - 1, new_url)]]

\* d[trigger].pop(index - 1); if not d[trigger]: del d[trigger]
DeleteEntry_PopLast(r, cat, k, index) ==
    LET rest == ListPop(r[cat][k], -1)
    IN  [r EXCEPT ![cat] = IF rest = <<>> THEN DictDel(@, k) ELSE [@ EXCEPT ![k] = rest]]
DeleteEntry_KeepKey(r, cat, k, index) ==
    [r EXCEPT ![cat] = [@ EXCEPT ![k] = ListPop(r[cat][k], index - 1)]]
DeleteEntry(r, cat, k, index) ==
    LET rest == ListPop(r[cat][k], index - 1)
    IN  [r EXCEPT ![cat] = IF rest = <<>> THEN DictDel(@, k) ELSE [@ EXCEPT ![k] = rest]]

\* del d[trigger]
DeleteTrigger(r, cat, k) == [r EXCEPT ![cat] = DictDel(@, k)]

\* A handler run that replies without touching registry, flag or file, and
\* leaves its event as e.
Handled(c, r, e) ==
    /\ cmd' = c
    /\ reply' = r
    /\ pre' = Found
    /\ UNCHANGED << api_list, direct_url_list, text_api_list, is_enabled, doc, faults_left >>
    /\ UNCHANGED sideVars
    /\ event' = e

\* A command handler: it never calls stop_event().
ReplyOnly(c, r) == Handled(c, r, FreshEvent)

\* Registry change, then save_api_config(), then the reply r; the handler cannot
\* tell whether the write succeeded (save_api_config returns nothing).
MutateAndSave(c, r, newreg) ==
    \E w \in WriteOutcomes :
        /\ w = "ok" \/ faults_left > 0
        /\ SetRegistry(newreg)
        /\ doc' = save_api_config(newreg, doc, w)
        /\ faults_left' = IF w = "ok" THEN faults_left ELSE faults_left - 1
        /\ cmd' = [c EXCEPT !.write = w]
        /\ reply' = r
        /\ pre' = Found
        /\ UNCHANGED is_enabled
        /\ UNCHANGED sideVars
        /\ event' = FreshEvent

\* Room left for one more URL.
HasRoom ==
    RegistrySize(Registry) < (IF faults_left > 0 THEN MaxFaultyEntries ELSE MaxEntries)

\* ---------------------------------------------------------------- handlers
\* enable_picture
EnablePicture ==
    /\ is_enabled' = TRUE
    /\ cmd' = Cmd("enable", <<>>, NoIndex, "", "", <<>>, "none")
    /\ reply' = "enabled"
    /\ pre' = Found
    /\ UNCHANGED << api_list, direct_url_list, text_api_list, doc, faults_left >>
    /\ UNCHANGED sideVars
    /\ event' = FreshEvent

\* disable_picture
DisablePicture ==
    /\ is_enabled' = FALSE
    /\ cmd' = Cmd("disable", <<>>, NoIndex, "", "", <<>>, "none")
    /\ reply' = "disabled_now"
    /\ pre' = Found
    /\ UNCHANGED << api_list, direct_url_list, text_api_list, doc, faults_left >>
    /\ UNCHANGED sideVars
    /\ event' = FreshEvent

\* list_apis
ListApis ==
    IF ~is_enabled THEN ReplyOnly(Refused("list"), "plugin_disabled")
    ELSE IF DOMAIN api_list = {} /\ DOMAIN direct_url_list = {} /\ DOMAIN text_api_list = {}
         THEN ReplyOnly(Cmd("list", <<>>, NoIndex, "", "", <<>>, "none"), "list_empty")
         ELSE ReplyOnly(Cmd("list", <<>>, NoIndex, "", "", <<>>, "none"), "list")

\* The probe answers add_api_or_url can get: a Content-Type is read only from a
\* response with status 200.
ProbeAnswers ==
    { <<o, <<>> >> : o \in ProbeOutcomes \ {"ok_200"} } \cup
    { <<"ok_200", ct>> : ct \in ContentTypes }

\* add_api_or_url. The handler is suspended at its probe GET and resumes with the
\* answer; what it does from there on runs without a further suspension, on the
\* registry as it is then, so the whole handler is one step.
AddApiOrUrl(trigger, url) ==
    IF ~is_enabled THEN ReplyOnly(Refused("add"), "plugin_disabled")
    ELSE \E a \in ProbeAnswers :
           LET outcome == a[1]
               ct == a[2]
               k == NormalizeTrigger(trigger)
               c == Cmd("add", trigger, NoIndex, url, outcome, ct, "none")
           IN  CASE outcome = "client_error" -> ReplyOnly(c, "add_failed_network")
                 [] outcome = "other_error" -> ReplyOnly(c, "add_failed_error")
                 [] outcome = "not_200" ->
                      /\ HasRoom
                      /\ MutateAndSave(c, "added_text",
                             RegistryAppend(Registry, "text_api_list", k, url))
                 [] outcome = "ok_200" ->
                      /\ HasRoom
                      /\ MutateAndSave(c, AddedReply(ProbeCategory(ct)),
                             RegistryAppend(Registry, ProbeCategory(ct), k, url))

\* add_text_api
AddTextApi(trigger, url) ==
    IF ~is_enabled THEN ReplyOnly(Refused("add_text"), "plugin_disabled")
    ELSE /\ HasRoom
         /\ MutateAndSave(Cmd("add_text", trigger, NoIndex, url, "", <<>>, "none"),
                "added_text",
                RegistryAppend(Registry, "text_api_list", NormalizeTrigger(trigger), url))

\* modify_api_address that goes on to the next map when the index does not fit
\* the list of the first one.
ModifyApiAddress_FirstFittingCategory(trigger, index, new_url) ==
    LET k == NormalizeTrigger(trigger)
        fits == { c \in Categories :
                    k \in DOMAIN Registry[c] /\ InRange(index, Len(Registry[c][k])) }
        cat == IF "api_list" \in fits THEN "api_list"
               ELSE IF "direct_url_list" \in fits THEN "direct_url_list"
               ELSE "text_api_list"
    IN  IF ~is_enabled THEN ReplyOnly(Refused("modify"), "plugin_disabled")
        ELSE IF FirstCategory(Registry, k) = "none"
             THEN ReplyOnly(Cmd("modify", trigger, NoIndex, "", "", <<>>, "none"),
                            "trigger_not_found")
        ELSE IF fits = {}
             THEN ReplyOnly(Cmd("modify", trigger, GivenIndex(index), "", "", <<>>, "none"),
                            "index_out_of_range")
             ELSE MutateAndSave(Cmd("modify", trigger, GivenIndex(index), new_url, "", <<>>, "none"),
                                "modified", ModifyEntry(Registry, cat, k, index, new_url))
\* modify_api_address; a rejected call has not read new_url, and one rejected for
\* its trigger has not read index either.
ModifyApiAddress(trigger, index, new_url) ==
    LET k == NormalizeTrigger(trigger)
        cat == FirstCategory(Registry, k)
    IN  IF ~is_enabled THEN ReplyOnly(Refused("modify"), "plugin_disabled")
        ELSE IF cat = "none"
             THEN ReplyOnly(Cmd("modify", trigger, NoIndex, "", "", <<>>, "none"),
                            "trigger_not_found")
        ELSE IF ~InRange(index, Len(Registry[cat][k]))
             THEN ReplyOnly(Cmd("modify", trigger, GivenIndex(index), "", "", <<>>, "none"),
                            "index_out_of_range")
             ELSE MutateAndSave(Cmd("modify", trigger, GivenIndex(index), new_url, "", <<>>, "none"),
                                "modified", ModifyEntry(Registry, cat, k, index, new_url))

\* delete_api
DeleteApi(trigger, index) ==
    LET k == NormalizeTrigger(trigger)
        cat == FirstCategory(Registry, k)
        c == Cmd("delete", trigger, index, "", "", <<>>, "none")
    IN  IF ~is_enabled THEN ReplyOnly(Refused("delete"), "plugin_disabled")
        ELSE IF cat = "none"
             THEN ReplyOnly(Cmd("delete", trigger, NoIndex, "", "", <<>>, "none"),
                            "trigger_not_found")
        ELSE IF ~index.given THEN MutateAndSave(c, "deleted", DeleteTrigger(Registry, cat, k))
        ELSE IF ~InRange(index.value, Len(Registry[cat][k]))
             THEN ReplyOnly(c, "index_out_of_range")
             ELSE MutateAndSave(c, "deleted", DeleteEntry(Registry, cat, k, index.value))

\* picture (send-by-trigger): which sender the lower-cased trigger is handed to.
Picture(trigger) ==
    LET k == NormalizeTrigger(trigger)
        c == Cmd("picture", trigger, NoIndex, "", "", <<>>, "none")
    IN  IF ~is_enabled THEN ReplyOnly(Refused("picture"), "plugin_disabled")
        ELSE IF k \in DOMAIN api_list THEN ReplyOnly(c, "send_picture")
        ELSE IF k \in DOMAIN direct_url_list THEN ReplyOnly(c, "send_direct_image")
        ELSE ReplyOnly(c, "not_media_trigger")

\* send_text_command (send-text-by-trigger)
SendTextCommand(trigger) ==
    LET k == NormalizeTrigger(trigger)
        c == Cmd("text", trigger, NoIndex, "", "", <<>>, "none")
    IN  IF ~is_enabled THEN ReplyOnly(Refused("text"), "plugin_disabled")
        ELSE IF k \in DOMAIN text_api_list THEN ReplyOnly(c, "send_text")
        ELSE ReplyOnly(c, "text_trigger_not_found")

\* view_picture (batch-send) up to its first fetch: the trigger lookup.
ViewPicture(trigger) ==
    LET k == NormalizeTrigger(trigger)
        c == Cmd("view", trigger, NoIndex, "", "", <<>>, "none")
    IN  IF ~is_enabled THEN ReplyOnly(Refused("view"), "plugin_disabled")
        ELSE IF k \notin DOMAIN api_list /\ k \notin DOMAIN direct_url_list
             THEN ReplyOnly(c, "not_media_trigger")
        ELSE IF k \in DOMAIN api_list THEN ReplyOnly(c, "fetch_media_from_api")
        ELSE ReplyOnly(c, "fetch_media_from_direct_url")

\* "服务器" in trigger
HasServerKeyword(trigger) == \E i \in DOMAIN trigger : trigger[i] = ServerKeyword

\* The server_tasks of list_servers: one task per URL of every trigger holding the
\* keyword, media-API map first, then direct URLs, then text APIs.
RECURSIVE MapTasks(_, _, _)
MapTasks(m, keys, type) ==
    IF keys = {} THEN <<>>
    ELSE LET k == CHOOSE x \in keys : TRUE
         IN  [i \in 1 .. Len(m[k]) |-> [trigger |-> k, type |-> type, url |-> m[k][i]]]
             \o MapTasks(m, keys \ {k}, type)

ServerTasks(r) ==
    MapTasks(r.api_list, { k \in DOMAIN r.api_list : HasServerKeyword(k) }, "api")
    \o MapTasks(r.direct_url_list,
                { k \in DOMAIN r.direct_url_list : HasServerKeyword(k) }, "direct")
    \o MapTasks(r.text_api_list,
                { k \in DOMAIN r.text_api_list : HasServerKeyword(k) }, "text")

\* re.match(f"^{re.escape(trigger)}$", message_str): the whole message is the
\* trigger, and `$` also matches just before one newline that ends the message.
Match(trigger, message_str) ==
    \/ message_str = trigger
    \/ message_str = trigger \o << "\n" >>

\* The literals of on_message: "随机看图", "随机文本", "查看所有服务器".
RandomPictureCommand == << "random_picture" >>
RandomTextCommand == << "random_text" >>
ListServersCommand == << "list_all", ServerKeyword >>

\* What random_picture, random_text and list_servers yield first when on_message
\* calls them (the flag is on).
RandomPictureReplies ==
    IF DOMAIN api_list = {} /\ DOMAIN direct_url_list = {} /\ DOMAIN text_api_list = {}
    THEN { "list_empty" }
    ELSE { IF trigger \in DOMAIN api_list THEN "send_picture"
           ELSE IF trigger \in DOMAIN direct_url_list THEN "send_direct_image"
           ELSE "send_text" :
           trigger \in DOMAIN api_list \cup DOMAIN direct_url_list \cup DOMAIN text_api_list }
RandomTextReplies ==
    IF DOMAIN text_api_list = {} THEN { "text_list_empty" } ELSE { "send_text" }
ListServersReplies ==
    IF ServerTasks(Registry) = <<>> THEN { "no_server_apis" } ELSE { "probe_servers" }

\* The body of on_message after its flag check: the three loops over the maps'
\* keys, then the literals; a message matching nothing yields nothing.
Dispatch(message) ==
    LET message_str == NormalizeTrigger(message)
        c == Cmd("message", message, NoIndex, "", "", <<>>, "none")
    IN  IF \E trigger \in DOMAIN api_list : Match(trigger, message_str)
        THEN Handled(c, "send_picture", StoppedEvent("api_list"))
        ELSE IF \E trigger \in DOMAIN direct_url_list : Match(trigger, message_str)
             THEN Handled(c, "send_direct_image", StoppedEvent("direct_url_list"))
        ELSE IF \E trigger \in DOMAIN text_api_list : Match(trigger, message_str)
             THEN Handled(c, "send_text", StoppedEvent("text_api_list"))
        ELSE IF Match(RandomPictureCommand, message_str)
             THEN \E r \in RandomPictureReplies : Handled(c, r, StoppedEvent("random_picture"))
        ELSE IF Match(RandomTextCommand, message_str)
             THEN \E r \in RandomTextReplies : Handled(c, r, StoppedEvent("random_text"))
        ELSE IF Match(ListServersCommand, message_str)
             THEN \E r \in ListServersReplies : Handled(c, r, StoppedEvent("list_servers"))
        ELSE Handled(c, "no_trigger_matched", FreshEvent)

OnMessage_NoFlagCheck(message) == Dispatch(message)

\* on_message (bare trigger)
OnMessage(message) ==
    IF ~is_enabled THEN Handled(Refused("message"), "none", FreshEvent)
    ELSE Dispatch(message)

\* random_picture (send-random) up to the sender it hands a URL to: the trigger
\* is random.choice over the keys of the three maps.
RandomPicture ==
    LET c == Cmd("random", <<>>, NoIndex, "", "", <<>>, "none")
    IN  IF ~is_enabled THEN ReplyOnly(Refused("random"), "plugin_disabled")
        ELSE IF DOMAIN api_list = {} /\ DOMAIN direct_url_list = {} /\ DOMAIN text_api_list = {}
             THEN ReplyOnly(c, "list_empty")
        ELSE \E trigger \in DOMAIN api_list \cup DOMAIN direct_url_list \cup DOMAIN text_api_list :
                IF trigger \in DOMAIN api_list THEN ReplyOnly(c, "send_picture")
                ELSE IF trigger \in DOMAIN direct_url_list THEN ReplyOnly(c, "send_direct_image")
                ELSE ReplyOnly(c, "send_text")

\* random_text (send-random-text)
RandomText ==
    LET c == Cmd("random_text", <<>>, NoIndex, "", "", <<>>, "none")
    IN  IF ~is_enabled THEN ReplyOnly(Refused("random_text"), "plugin_disabled")
        ELSE IF DOMAIN text_api_list = {} THEN ReplyOnly(c, "text_list_empty")
        ELSE ReplyOnly(c, "send_text")

\* list_servers (diagnostic fan-out) up to its first request.
ListServers ==
    LET c == Cmd("servers", <<>>, NoIndex, "", "", <<>>, "none")
    IN  IF ~is_enabled THEN ReplyOnly(Refused("servers"), "plugin_disabled")
        ELSE IF ServerTasks(Registry) = <<>> THEN ReplyOnly(c, "no_server_apis")
        ELSE ReplyOnly(c, "probe_servers")

\* Process restart: __init__ reads the flag from the configuration and calls
\* load_api_config().
Restart(enabled) ==
    /\ SetRegistry(load_api_config(doc))
    /\ is_enabled' = enabled
    /\ cmd' = Cmd("load", <<>>, NoIndex, "", "", <<>>, "none")
    /\ reply' = "none"
    /\ pre' = [registry |-> EmptyRegistry, doc |-> doc]
    /\ UNCHANGED << doc, faults_left >>
    /\ UNCHANGED sideVars
    /\ event' = FreshEvent

Next ==
    \/ EnablePicture
    \/ DisablePicture
    \/ ListApis
    \/ \E t \in TriggerInputs : \E u \in UrlInputs(t) : AddApiOrUrl(t, u)
    \/ \E t \in TriggerInputs : \E u \in UrlInputs(t) : AddTextApi(t, u)
    \/ \E t \in LookupInputs, i \in IndexValues : \E u \in UrlInputs(t) :
          ModifyApiAddress(t, i, u)
    \/ \E t \in LookupInputs, i \in {NoIndex} \cup { GivenIndex(n) : n \in IndexValues } :
          DeleteApi(t, i)
    \/ \E t \in LookupInputs : Picture(t)
    \/ \E t \in LookupInputs : SendTextCommand(t)
    \/ \E t \in LookupInputs : ViewPicture(t)
    \/ \E t \in LookupInputs : OnMessage(t)
    \/ RandomPicture
    \/ RandomText
    \/ ListServers
    \/ \E e \in BOOLEAN : Restart(e)

Spec == Init /\ [][Next]_vars

SpecFaulty == InitFaulty /\ [][Next]_vars

\* --------------------------------------------------------- helper methods
\* Characters of the texts handed to _split_long_text; "zh." is the full stop
\* of Chinese text.
TextChars == { "a", "b", " ", "." }
Separators == { "\n", "zh.", ".", " " }
RECURSIVE TextsOfLen(_)
TextsOfLen(n) ==
    IF n = 0 THEN { <<>> }
    ELSE { Append(t, c) : t \in TextsOfLen(n - 1), c \in TextChars }
Texts == UNION { TextsOfLen(n) : n \in 0 .. MaxTextLen }
Limits == 1 .. MaxLimit

\* text[a:b] with 0 <= a <= b
Slice(text, a, b) == SubSeq(text, a + 1, IF b < Len(text) THEN b ELSE Len(text))

SetMax(S) == CHOOSE x \in S : \A y \in S : y <= x

\* The while loop of _split_long_text from position start on.
RECURSIVE SplitLoop(_, _, _)
SplitLoop(text, max_length, start) ==
    IF ~(start < Len(text)) THEN <<>>
    ELSE LET window == start + max_length
             \* for split_point in range(end, start, -1): the first hit is the largest
             hits == IF window < Len(text)
                     THEN { split_point \in (start + 1) .. window :
                              split_point < Len(text) /\ text[split_point + 1] \in Separators }
                     ELSE {}
             end == IF hits # {} THEN SetMax(hits) + 1 ELSE window
         IN  << Slice(text, start, end) >> \o SplitLoop(text, max_length, end)

split_long_text(text, max_length) ==
    IF Len(text) <= max_length THEN << text >> ELSE SplitLoop(text, max_length, 0)

\* The pending call `call` of helper fn returns r; the plugin's state is not touched.
Returns(fn, r) ==
    /\ call.fn = fn
    /\ ~result.done
    /\ result' = [done |-> TRUE, value |-> r]
    /\ UNCHANGED << api_list, direct_url_list, text_api_list, is_enabled, doc, faults_left,
                    cmd, reply, pre, view, servers, call >>
    /\ UNCHANGED event

SplitCalls ==
    { [fn |-> "_split_long_text", text |-> t, max_length |-> l] : t \in Texts, l \in Limits }

SplitLongText == Returns("_split_long_text", split_long_text(call.text, call.max_length))

\* A media URL: what precedes the extension of its path, the extension
\* (os.path.splitext of the path of urlparse) and the query string.
MediaUrl(base, ext, query) == [base |-> base, ext |-> ext, query |-> query]
MediaUrls ==
    { MediaUrl("http://h/a", e, q) :
        e \in { "", ".mp4", ".MP4", ".webm", ".jpg", ".txt" }, q \in { "", "?f=v.mp4" } }
\* Content-Type values as the callers pass them (lower-cased); the function tests
\* them for the substrings 'video' and 'image'.
MediaContentTypes ==
    { <<>>, <<"video", "/mp4">>, <<"image", "/png">>, <<"application/octet-stream">>,
      <<"application/x-", "image", "-or-", "video">> }
VideoExtensions == { ".mp4", ".mov", ".avi", ".mkv", ".webm" }

\* 'video' in content_type
Contains(s, word) == \E i \in DOMAIN s : s[i] = word

\* mimetypes.guess_type(url)[0] for an http(s) URL: the type its path extension
\* maps to, None ("") when the path has no extension.
guess_type(url) ==
    CASE LowerTok(url.ext) \in VideoExtensions -> <<"video", "/", url.ext>>
      [] LowerTok(url.ext) = ".jpg" -> <<"image", "/jpeg">>
      [] LowerTok(url.ext) = ".txt" -> <<"text/plain">>
      [] OTHER -> <<>>

VideoChain(url) == << [kind |-> "Video", file |-> url] >>
ImageChain(url) == << [kind |-> "Image", file |-> url] >>

determine_media_type_ExtensionFirst(url, content_type) ==
    IF LowerTok(url.ext) \in VideoExtensions THEN VideoChain(url)
    ELSE IF Contains(content_type, "video") THEN VideoChain(url)
    ELSE ImageChain(url)
determine_media_type(url, content_type) ==
    IF Contains(content_type, "video") THEN VideoChain(url)
    ELSE IF Contains(content_type, "image") THEN ImageChain(url)
    ELSE LET file_extension == LowerTok(url.ext)
             guessed_type == IF file_extension = "" THEN guess_type(url) ELSE <<>>
         IN  IF guessed_type # <<>> /\ Contains(guessed_type, "video") THEN VideoChain(url)
             ELSE IF guessed_type # <<>> /\ Contains(guessed_type, "image") THEN ImageChain(url)
             ELSE IF file_extension \in VideoExtensions THEN VideoChain(url)
             ELSE ImageChain(url)

MediaTypeCalls ==
    { [fn |-> "_determine_media_type", url |-> u, content_type |-> ct] :
        u \in MediaUrls, ct \in MediaContentTypes }

DetermineMediaType ==
    Returns("_determine_media_type", determine_media_type(call.url, call.content_type))

\* JSON payloads of a text API: objects are lists of (key, value) pairs in the
\* order the parser met them (dict iteration order).
JObj(pairs) == [type |-> "object", str |-> "", items |-> pairs]
JNum == [type |-> "number", str |-> "7", items |-> <<>>]
JList(values) == [type |-> "array", str |-> "", items |-> values]
SubObjects ==
    { JObj(<<>>), JObj(<< <<"text", JStr("t2")>> >>), JObj(<< <<"content", JStr("c2")>> >>),
      JObj(<< <<"content", JStr("c2")>>, <<"text", JStr("t2")>> >>),
      JObj(<< <<"x", JStr("x2")>> >>) }
FieldKeys == { "hitokoto", "from", "text", "content", "data", "msg", "x", "y" }
FieldValues(key) ==
    CASE key = "hitokoto" -> { JStr("h") }
      [] key = "from" -> { JStr("f") }
      [] key = "text" -> { JStr("t"), JNum }
      [] key = "content" -> { JStr("c") }
      [] key = "data" -> SubObjects \cup { JStr("d") }
      [] key = "msg" -> { JStr("m") }
      [] key = "x" -> { JStr(""), JStr("sx"), JNum }
      [] key = "y" -> { JStr(" "), JStr("sy") }
KeysOf(pairs) == { pairs[i][1] : i \in DOMAIN pairs }
RECURSIVE PairsOfLen(_)
PairsOfLen(n) ==
    IF n = 0 THEN { <<>> }
    ELSE UNION { UNION { { Append(ps, <<k, v>>) : v \in FieldValues(k) } :
                         k \in FieldKeys \ KeysOf(ps) } :
                 ps \in PairsOfLen(n - 1) }
Objects == { JObj(ps) : ps \in UNION { PairsOfLen(n) : n \in 0 .. MaxFields } }
Payloads ==
    Objects \cup { JList(<<>>), JList(<< JObj(<< <<"msg", JStr("m")>> >>), JNum >>), JStr("s") }

\* key in data  /  data[key]
Has(data, key) == key \in KeysOf(data.items)
Get(data, key) == data.items[CHOOSE i \in DOMAIN data.items : data.items[i][1] = key][2]
\* isinstance(value, str) and value.strip()
NonBlankString(value) == value.type = "string" /\ value.str \notin { "", " " }
\* json.dumps(data, ensure_ascii=False, indent=2)
Dump(data) == [type |-> "dump", str |-> "", items |-> << data >>]
\* f"{data['hitokoto']}\n—— {data.get('from', '未知')}"
Quote(hitokoto, from) == [type |-> "quote", str |-> "", items |-> << hitokoto, "\n-- ", from >>]

RECURSIVE parse_json_response(_)
parse_json_response(data) ==
    IF data.type = "object"
    THEN IF Has(data, "hitokoto") /\ Has(data, "from")
         THEN Quote(Get(data, "hitokoto"), Get(data, "from"))
         ELSE IF Has(data, "text") THEN Get(data, "text")
         ELSE IF Has(data, "content") THEN Get(data, "content")
         ELSE IF Has(data, "data") /\ Get(data, "data").type = "object"
              THEN LET sub_data == Get(data, "data")
                   IN  IF Has(sub_data, "text") THEN Get(sub_data, "text")
                       ELSE IF Has(sub_data, "content") THEN Get(sub_data, "content")
                       ELSE Dump(data)
         ELSE IF Has(data, "msg") THEN Get(data, "msg")
         ELSE LET strings == { i \in DOMAIN data.items : NonBlankString(data.items[i][2]) }
              IN  IF strings # {}
                  THEN data.items[CHOOSE i \in strings : \A j \in strings : i <= j][2]
                  ELSE Dump(data)
    ELSE IF data.type = "array" /\ data.items # <<>> THEN parse_json_response(data.items[1])
    ELSE Dump(data)

ParseCalls == { [fn |-> "_parse_json_response", data |-> d] : d \in Payloads }

ParseJsonResponse == Returns("_parse_json_response", parse_json_response(call.data))

\* What the follow-up GET of one candidate URL of an API response does: the URL
\* does not start with http:// or https:// and is skipped, the GET raises, or it
\* is answered with a status and a Content-Type.
Candidate(url, outcome, content_type) ==
    [url |-> url, outcome |-> outcome, content_type |-> content_type]
ImageCandidate == Candidate(MediaUrl("http://h/a", ".jpg", ""), "ok_200", <<"image", "/png">>)
VideoCandidate == Candidate(MediaUrl("http://h/b", ".mp4", ""), "ok_200", <<>>)
RefusedCandidate == Candidate(MediaUrl("http://h/c", ".jpg", ""), "not_200", <<>>)
FailedCandidate == Candidate(MediaUrl("http://h/e", ".jpg", ""), "client_error", <<>>)
ForeignCandidate == Candidate(MediaUrl("ftp://h/f", ".jpg", ""), "not_http", <<>>)
Candidates ==
    { ImageCandidate, VideoCandidate, RefusedCandidate, FailedCandidate, ForeignCandidate }
RECURSIVE CandidatesOfLen(_)
CandidatesOfLen(n) ==
    IF n = 0 THEN { <<>> }
    ELSE { Append(cs, c) : cs \in CandidatesOfLen(n - 1), c \in Candidates }
\* What the GET of the API URL does: it raises, is answered with another status,
\* or with 200 and a body that parses to the list file_urls.
ApiAnswers ==
    { [outcome |-> o, file_urls |-> <<>>] : o \in { "client_error", "not_200" } } \cup
    { [outcome |-> "ok_200", file_urls |-> cs] :
        cs \in UNION { CandidatesOfLen(n) : n \in 0 .. MaxCandidates } }

\* for file_url in file_urls: ... inside the try block of _fetch_media_from_api;
\* an exception of a follow-up GET leaves the loop and the function returns [].
RECURSIVE FetchLoop(_, _, _)
FetchLoop(file_urls, i, media_chains) ==
    IF i > Len(file_urls) THEN media_chains
    ELSE LET c == file_urls[i]
         IN  CASE c.outcome = "not_http" -> FetchLoop(file_urls, i + 1, media_chains)
               [] c.outcome = "not_200" -> FetchLoop(file_urls, i + 1, media_chains)
               [] c.outcome = "client_error" -> <<>>
               [] c.outcome = "ok_200" ->
                    FetchLoop(file_urls, i + 1,
                              Append(media_chains, determine_media_type(c.url, c.content_type)))

fetch_media_from_api(enabled, answer) ==
    IF ~enabled THEN <<>>
    ELSE IF answer.outcome # "ok_200" THEN <<>>
    ELSE FetchLoop(answer.file_urls, 1, <<>>)

FetchCalls == { [fn |-> "_fetch_media_from_api", answer |-> a] : a \in ApiAnswers }

FetchMediaFromApi ==
    Returns("_fetch_media_from_api", fetch_media_from_api(is_enabled, call.answer))

\* _fetch_media_from_direct_url: get_latest_url or the GET raises, the GET is
\* answered with another status, or with 200 and a Content-Type.
DirectAnswers ==
    { [outcome |-> o, url |-> MediaUrl("http://h/a", ".jpg", ""), content_type |-> <<>>] :
        o \in { "client_error", "not_200" } } \cup
    { [outcome |-> "ok_200", url |-> MediaUrl("http://h/a", ".jpg", ""),
       content_type |-> <<"image", "/png">>],
      [outcome |-> "ok_200", url |-> MediaUrl("http://h/b", ".mp4", ""), content_type |-> <<>>] }

fetch_media_from_direct_url(enabled, answer) ==
    IF ~enabled THEN <<>>
    ELSE IF answer.outcome # "ok_200" THEN <<>>
    ELSE determine_media_type(answer.url, answer.content_type)

\* The helper methods, each called once on inputs drawn at the start.
InitHelpers ==
    /\ doc = AbsentDoc
    /\ is_enabled \in BOOLEAN
    /\ api_list = EmptyMap /\ direct_url_list = EmptyMap /\ text_api_list = EmptyMap
    /\ faults_left = 0
    /\ cmd = Cmd("load", <<>>, NoIndex, "", "", <<>>, "none")
    /\ reply = "none"
    /\ pre = [registry |-> EmptyRegistry, doc |-> doc]
    /\ view = NoRun
    /\ servers = NoRun
    /\ call \in SplitCalls \cup MediaTypeCalls \cup ParseCalls \cup FetchCalls
    /\ result = NotReturned
    /\ event = FreshEvent

NextHelpers ==
    \/ SplitLongText
    \/ DetermineMediaType
    \/ ParseJsonResponse
    \/ FetchMediaFromApi

SpecHelpers == InitHelpers /\ [][NextHelpers]_vars

\* ------------------------------------------------------------ view_picture
\* count argument of view_picture; 0 stands for every value max(1, count) raises to 1.
CountInputs == 0 .. MaxCount
\* What the API of a media-API trigger answers to one attempt of the batch.
ViewApiAnswers ==
    { [outcome |-> "not_200", file_urls |-> <<>>],
      [outcome |-> "ok_200", file_urls |-> << ImageCandidate >>],
      [outcome |-> "ok_200", file_urls |-> << ImageCandidate, VideoCandidate >>],
      [outcome |-> "ok_200", file_urls |-> << VideoCandidate, RefusedCandidate >>],
      [outcome |-> "ok_200", file_urls |-> << ImageCandidate, FailedCandidate >>] }

\* Every GET of the attempt was answered with status 200.
AllSucceeded(answer) ==
    /\ answer.outcome = "ok_200"
    /\ "file_urls" \in DOMAIN answer =>
          \A i \in DOMAIN answer.file_urls : answer.file_urls[i].outcome = "ok_200"

\* seq[:n]
Take(seq, n) == SubSeq(seq, 1, IF n < Len(seq) THEN n ELSE Len(seq))

\* "图片" if isinstance(chain[0], Image) else "视频"
MediaLabel(chain) == IF chain[1].kind = "Image" THEN "picture" ELSE "video"

\* What view_picture yields once its loop is over.
ViewReplies(count, media_chains) ==
    IF media_chains = <<>> THEN << [kind |-> "plain", text |-> "nothing_retrieved"] >>
    ELSE IF count > 2 \/ Len(media_chains) > 2
    THEN LET shown == Take(media_chains,
                           IF count > Len(media_chains) THEN count ELSE Len(media_chains))
         IN  << [kind |-> "nodes",
                 nodes |-> [i \in 1 .. Len(shown) |->
                              [name |-> << MediaLabel(shown[i]), i >>, content |-> shown[i]]]] >>
    ELSE LET shown == Take(media_chains, count)
         IN  [i \in 1 .. Len(shown) |-> [kind |-> "chain", content |-> shown[i]]]

\* The next pass of `for _ in range(count)` after `attempts` passes: the list of
\* the trigger is read from the map again (a KeyError if the key is gone), a URL
\* is picked and the fetch awaited; after the last pass the replies are yielded.
ViewContinue(run, r) ==
    IF run.attempts = run.count
    THEN [run EXCEPT !.pc = "done", !.out = ViewReplies(run.count, run.media_chains)]
    ELSE IF run.trigger \notin DOMAIN r[run.source]
    THEN [run EXCEPT !.pc = "KeyError"]
    ELSE [run EXCEPT !.pc = "fetching"]

\* view_picture after its trigger lookup (ViewPicture): count is clamped, the map
\* holding the trigger is chosen once, and the first fetch is awaited.
ViewPictureLoop(count) ==
    /\ cmd.op = "view"
    /\ reply \in { "fetch_media_from_api", "fetch_media_from_direct_url" }
    /\ view.pc # "fetching"
    /\ view' = ViewContinue(
                  [pc |-> "fetching", trigger |-> NormalizeTrigger(cmd.trigger),
                   source |-> IF NormalizeTrigger(cmd.trigger) \in DOMAIN api_list
                              THEN "api_list" ELSE "direct_url_list",
                   count |-> IF count > 1 THEN count ELSE 1,
                   attempts |-> 0, media_chains |-> <<>>, all_ok |-> TRUE, out |-> <<>>],
                  Registry)
    /\ cmd' = [cmd EXCEPT !.op = "view_loop"]
    /\ UNCHANGED << api_list, direct_url_list, text_api_list, is_enabled, doc, faults_left,
                    reply, pre, servers, call, result >>
    /\ UNCHANGED event

\* The awaited fetch of view_picture returns and the handler runs on to its next
\* await or to its end.
ViewPictureResume ==
    /\ view.pc = "fetching"
    /\ \E answer \in IF view.source = "api_list" THEN ViewApiAnswers ELSE DirectAnswers :
          LET got == IF view.source = "api_list"
                     THEN fetch_media_from_api(is_enabled, answer)
                     ELSE fetch_media_from_direct_url(is_enabled, answer)
              \* extend() adds every chain of the API, append() the one chain of the URL
              chains == IF got = <<>> THEN view.media_chains
                        ELSE IF view.source = "api_list" THEN view.media_chains \o got
                        ELSE Append(view.media_chains, got)
          IN  view' = ViewContinue(
                        [view EXCEPT !.attempts = @ + 1, !.media_chains = chains,
                                     !.all_ok = @ /\ AllSucceeded(answer)],
                        Registry)
    /\ UNCHANGED << api_list, direct_url_list, text_api_list, is_enabled, doc, faults_left,
                    cmd, reply, pre, servers, call, result >>
    /\ UNCHANGED event

\* Batch-send runs, with deletes and modifies of other chats arriving while a
\* run awaits a fetch.
NextBatch ==
    \/ \E t \in LookupInputs : ViewPicture(t)
    \/ \E n \in CountInputs : ViewPictureLoop(n)
    \/ ViewPictureResume
    \/ view.pc = "fetching" /\
          \E t \in LookupInputs, i \in { NoIndex, GivenIndex(1) } : DeleteApi(t, i)
    \/ view.pc = "fetching" /\
          \E t \in LookupInputs : \E u \in UrlInputs(t) : ModifyApiAddress(t, 1, u)

SpecBatch == Init /\ [][NextBatch]_vars

\* ------------------------------------------------------------ list_servers
\* What the request to one endpoint does: answered 200 (a text API with a short
\* or a long body), answered with another status, timed out, or failed in transport.
EndpointAnswers == { "ok_200", "ok_200_long", "not_200", "timeout", "client_error" }
ShortBody == << "a" >>
LongBody == << "a", "b", " ", "a" >>

\* _fetch_text_content: every failure is caught and returned as a text.
fetch_text_content(answer) ==
    CASE answer = "ok_200" -> [raised |-> FALSE, content |-> ShortBody]
      [] answer = "ok_200_long" -> [raised |-> FALSE, content |-> LongBody]
      [] answer = "not_200" -> [raised |-> FALSE, content |-> << "HTTP error" >>]
      [] answer = "timeout" -> [raised |-> FALSE, content |-> << "request timed out" >>]
      [] answer = "client_error" -> [raised |-> FALSE, content |-> << "network error" >>]

\* _fetch_media_urls_from_api: [] for another status and for every exception.
fetch_media_urls_from_api(answer) ==
    IF answer \in { "ok_200", "ok_200_long" }
    THEN [raised |-> FALSE, content |-> << "media links", 1 >>, media_urls |-> << "http://h/a.jpg" >>]
    ELSE [raised |-> FALSE, content |-> << "media links", 0 >>, media_urls |-> <<>>]

\* _fetch_media_info: a text for another status and for every exception.
fetch_media_info(answer) ==
    CASE answer \in { "ok_200", "ok_200_long" } -> [raised |-> FALSE, content |-> << "media info" >>]
      [] answer = "not_200" -> [raised |-> FALSE, content |-> << "cannot access media" >>]
      [] OTHER -> [raised |-> FALSE, content |-> << "media info failed" >>]

\* One pass of `for task in server_tasks`: the try block appends a success entry,
\* the except block a failure entry.
ProbeResult(task, answer) ==
    LET got == CASE task.type = "text" -> fetch_text_content(answer)
                 [] task.type = "api" -> fetch_media_urls_from_api(answer)
                 [] task.type = "direct" -> fetch_media_info(answer)
    IN  IF got.raised
        THEN [trigger |-> task.trigger, type |-> task.type, url |-> task.url,
              content |-> << "request failed" >>, media_urls |-> <<>>, success |-> FALSE]
        ELSE [trigger |-> task.trigger, type |-> task.type, url |-> task.url,
              content |-> got.content,
              media_urls |-> IF task.type = "api" THEN got.media_urls ELSE <<>>,
              success |-> TRUE]

\* The replies for one result: its entry and, for a long text, the parts of
\* _split_long_text(content, 1500) (scaled: longer than SplitThreshold, parts of SplitLimit).
ResultReplies(i, res) ==
    << [kind |-> "entry", index |-> i, ok |-> res.success, type |-> res.type,
        trigger |-> res.trigger, url |-> res.url, content |-> res.content,
        links |-> IF res.success THEN res.media_urls ELSE <<>>] >>
    \o (IF res.success /\ res.type = "text" /\ Len(res.content) > SplitThreshold
        THEN LET content_parts == split_long_text(res.content, SplitLimit)
             IN  [n \in 1 .. Len(content_parts) |->
                    [kind |-> "part", index |-> n, of |-> Len(content_parts),
                     content |-> content_parts[n]]]
        ELSE <<>>)

RECURSIVE AllResultReplies(_, _)
AllResultReplies(results, i) ==
    IF i > Len(results) THEN <<>>
    ELSE ResultReplies(i, results[i]) \o AllResultReplies(results, i + 1)

\* list_servers after its announcement (ListServers): server_tasks is a list
\* built before the first request, so the loop does not read the registry again.
ListServersProbe ==
    /\ cmd.op = "servers" /\ reply = "probe_servers"
    /\ servers.pc # "probing"
    /\ servers' = [pc |-> "probing", tasks |-> ServerTasks(pre.registry),
                   answers |-> <<>>, results |-> <<>>]
    /\ cmd' = [cmd EXCEPT !.op = "servers_loop"]
    /\ UNCHANGED << api_list, direct_url_list, text_api_list, is_enabled, doc, faults_left,
                    reply, pre, view, call, result >>
    /\ UNCHANGED event

\* One pass of the loop: the request to the next task's endpoint.
ListServersRequest ==
    /\ servers.pc = "probing"
    /\ Len(servers.results) < Len(servers.tasks)
    /\ \E answer \in EndpointAnswers :
         servers' = [servers EXCEPT
                       !.answers = Append(@, answer),
                       !.results = Append(@, ProbeResult(servers.tasks[Len(@) + 1], answer))]
    /\ UNCHANGED << api_list, direct_url_list, text_api_list, is_enabled, doc, faults_left,
                    cmd, reply, pre, view, call, result >>
    /\ UNCHANGED event

\* After the loop: the counts, the header, one entry per result and the totals.
ListServersReport ==
    /\ servers.pc = "probing"
    /\ Len(servers.results) = Len(servers.tasks)
    /\ LET results == servers.results
           success_count == Cardinality({ i \in DOMAIN results : results[i].success })
           failed_count == Len(results) - success_count
       IN  servers' =
             [pc |-> "done", tasks |-> servers.tasks, answers |-> servers.answers,
              results |-> results,
              success_count |-> success_count, failed_count |-> failed_count,
              out |-> << [kind |-> "header", ok |-> success_count, failed |-> failed_count] >>
                      \o AllResultReplies(results, 1)
                      \o << [kind |-> "stats", total |-> Len(results),
                              ok |-> success_count, failed |-> failed_count] >>]
    /\ UNCHANGED << api_list, direct_url_list, text_api_list, is_enabled, doc, faults_left,
                    cmd, reply, pre, view, call, result >>
    /\ UNCHANGED event

\* The fan-out over the server triggers registered so far; commands that
\* register further endpoints arrive between two diagnostics.
NextServers ==
    \/ ListServers
    \/ ListServersProbe
    \/ ListServersRequest
    \/ ListServersReport
    \/ servers.pc # "probing" /\ AddApiOrUrl(<<"d">>, "u1")
    \/ servers.pc # "probing" /\ AddTextApi(<<"d">>, "u1")
    \/ servers.pc # "probing" /\ EnablePicture

SpecServers == Init /\ [][NextServers]_vars

\* -------------------------------------------------------------- on_message
\* Inbound messages: a stored trigger as typed, the same followed by a line
\* break, the three literals, and a text that is neither.
MessageInputs ==
    { <<"C", "A">>, <<"d">>, <<"d", "\n">>, <<"x">>,
      RandomPictureCommand, RandomTextCommand, ListServersCommand }

\* Triggers registered while messages arrive: a keyword trigger and one spelled
\* like the send-random literal.
DispatchTriggers == { <<"d">>, <<"c", "a">>, RandomPictureCommand }

NextDispatch ==
    \/ \E message \in MessageInputs : OnMessage(message)
    \/ \E t \in DispatchTriggers : AddApiOrUrl(t, "u1")
    \/ \E t \in DispatchTriggers : AddTextApi(t, "u1")
    \/ \E t \in DispatchTriggers : DeleteApi(t, NoIndex)
    \/ EnablePicture
    \/ DisablePicture

SpecDispatch == Init /\ [][NextDispatch]_vars

\* ------------------------------------------------------------------ claims
MapNames == << "api_list", "direct_url_list", "text_api_list" >>

\* The maps of the registry that hold key k.
Holders(r, k) == { c \in Categories : k \in DOMAIN r[c] }

\* The handler run last passed its flag check and read its trigger argument.
Ran(op) == cmd.op = op /\ cmd.trigger # <<>>

SuccessReplies == { "added_direct", "added_text", "added_api", "modified", "deleted" }

\* seq without its i-th element (1-based)
RemoveAt(seq, i) == SubSeq(seq, 1, i - 1) \o SubSeq(seq, i + 1, Len(seq))

\* C1: no trigger key is present in more than one of the three category maps.
C1_TriggerInOneMap ==
    \A k \in DOMAIN api_list \cup DOMAIN direct_url_list \cup DOMAIN text_api_list :
        Cardinality(Holders(Registry, k)) = 1

\* C2: a modify or delete that gets past the flag check with an index outside
\* [1, len] of the list of the first map holding the trigger replies
\* index-out-of-range, and with a trigger held by no map replies not-found; in both
\* cases the three maps and the document stay as they were.
C2_RejectedLeavesState ==
    (is_enabled /\ cmd.op \in {"modify", "delete"}) =>
        LET k == Lower(cmd.trigger)
            held == Holders(pre.registry, k)
            first == IF "api_list" \in held THEN "api_list"
                     ELSE IF "direct_url_list" \in held THEN "direct_url_list"
                     ELSE "text_api_list"
        IN  /\ held = {} =>
                 /\ reply = "trigger_not_found"
                 /\ Registry = pre.registry /\ doc = pre.doc
            /\ (held # {} /\ cmd.index.given
                  /\ ~(1 <= cmd.index.value
                         /\ cmd.index.value <= Len(pre.registry[first][k]))) =>
                 /\ reply = "index_out_of_range"
                 /\ Registry = pre.registry /\ doc = pre.doc

\* A modify was refused for its index although the trigger exists.
C2_Witness ==
    /\ Ran("modify") /\ reply = "index_out_of_range"
    /\ cmd.index.value > 1
    /\ Holders(Registry, Lower(cmd.trigger)) # {}

\* C3: a delete that gets past the flag check with an index in [1, len] removes
\* exactly the index-th URL of the trigger's list (in the first map holding the
\* trigger), keeps the other URLs in order, and removes the key exactly when the
\* list becomes empty; with the index omitted it removes the key. Nothing else
\* in the registry changes.
C3_DeleteRemovesOne ==
    (is_enabled /\ cmd.op = "delete"
       /\ Holders(pre.registry, Lower(cmd.trigger)) # {}) =>
        LET k == Lower(cmd.trigger)
            held == Holders(pre.registry, k)
            first == IF "api_list" \in held THEN "api_list"
                     ELSE IF "direct_url_list" \in held THEN "direct_url_list"
                     ELSE "text_api_list"
            old == pre.registry[first][k]
            i == cmd.index.value
            after == Registry
        IN  /\ \A c \in Categories \ {first} : after[c] = pre.registry[c]
            /\ \A x \in DOMAIN pre.registry[first] \ {k} :
                  x \in DOMAIN after[first] /\ after[first][x] = pre.registry[first][x]
            /\ DOMAIN after[first] \subseteq DOMAIN pre.registry[first]
            /\ ~cmd.index.given => k \notin DOMAIN after[first]
            /\ (cmd.index.given /\ 1 <= i /\ i <= Len(old)) =>
                  /\ (k \notin DOMAIN after[first]) <=> (Len(old) = 1)
                  /\ Len(old) > 1 => after[first][k] = RemoveAt(old, i)

\* The middle URL of three was deleted and two different URLs remain.
C3_Witness ==
    /\ Ran("delete") /\ reply = "deleted"
    /\ cmd.index = GivenIndex(2)
    /\ Lower(cmd.trigger) \in DOMAIN api_list
    /\ Len(api_list[Lower(cmd.trigger)]) = 2
    /\ api_list[Lower(cmd.trigger)][1] # api_list[Lower(cmd.trigger)][2]

\* C4: every trigger key of every map maps to a non-empty list.
C4_ListsNonEmpty ==
    \A c \in Categories : \A k \in DOMAIN Registry[c] : Len(Registry[c][k]) >= 1

\* A delete by index emptied the trigger's list and the key is gone.
C4_Witness ==
    /\ Ran("delete") /\ reply = "deleted" /\ cmd.index = GivenIndex(1)
    /\ Holders(Registry, Lower(cmd.trigger)) = {}

\* C5: every key of the three maps is lower-case, and every lookup by trigger
\* text (bare message, send-by-trigger, send-text-by-trigger, batch-send, modify,
\* delete) that gets past the flag check finds the trigger exactly when the
\* lower-cased text is a key of a map that lookup searches.
C5_LowerCaseKeysAndLookups ==
    LET k == Lower(cmd.trigger)
        inMedia == k \in DOMAIN api_list \cup DOMAIN direct_url_list
        inText == k \in DOMAIN text_api_list
    IN  /\ \A c \in Categories : \A x \in DOMAIN Registry[c] : IsLower(x)
        /\ Ran("message") => (reply = "no_trigger_matched" <=> ~(inMedia \/ inText))
        /\ Ran("picture") => (reply = "not_media_trigger" <=> ~inMedia)
        /\ Ran("view") => (reply = "not_media_trigger" <=> ~inMedia)
        /\ Ran("text") => (reply = "text_trigger_not_found" <=> ~inText)
        /\ (Ran("modify") \/ (Ran("delete") /\ reply # "deleted")) =>
              (reply = "trigger_not_found" <=> ~(inMedia \/ inText))

\* An upper-case message found a trigger (stored under its lower-case key).
C5_Witness ==
    /\ Ran("message") /\ cmd.trigger = <<"C", "A">> /\ reply = "send_text"
    /\ <<"c", "a">> \in DOMAIN text_api_list

\* C6: an add whose probe fails (transport error) or is answered with a status
\* other than 200 stores the URL at the end of the trigger's media-API list and
\* does not reply with a failure.
C6_FailedProbeStoresMediaApi ==
    (Ran("add") /\ cmd.outcome \in {"client_error", "other_error", "not_200"}) =>
        /\ reply \notin {"add_failed_network", "add_failed_error"}
        /\ Lower(cmd.trigger) \in DOMAIN api_list
        /\ api_list[Lower(cmd.trigger)][Len(api_list[Lower(cmd.trigger)])] = cmd.url

\* C7: an add whose probe is answered with status 200 appends the URL to exactly
\* one map, chosen from the lower-cased Content-Type: image/ or video/ prefix ->
\* direct_url_list, text/ or application/json prefix -> text_api_list, anything
\* else or no header -> api_list; the other two maps stay as they were.
C7_ClassifiedAdd ==
    (is_enabled /\ cmd.op = "add" /\ cmd.outcome = "ok_200") =>
        LET k == Lower(cmd.trigger)
            first == IF cmd.ctype = <<>> THEN "" ELSE LowerTok(cmd.ctype[1])
            target == IF first \in {"image/", "video/"} THEN "direct_url_list"
                      ELSE IF first \in {"text/", "application/json"} THEN "text_api_list"
                      ELSE "api_list"
            found == pre.registry
            before == IF k \in DOMAIN found[target] THEN found[target][k] ELSE <<>>
            after == Registry
        IN  /\ \A c \in Categories \ {target} : after[c] = found[c]
            /\ DOMAIN after[target] = DOMAIN found[target] \cup {k}
            /\ after[target][k] = Append(before, cmd.url)
            /\ \A x \in DOMAIN found[target] \ {k} : after[target][x] = found[target][x]

\* A probe answered "Video/mp4" put the URL into the direct-URL map.
C7_Witness ==
    /\ Ran("add") /\ cmd.outcome = "ok_200" /\ cmd.ctype = <<"Video/", "mp4">>
    /\ reply = "added_direct"
    /\ Lower(cmd.trigger) \in DOMAIN direct_url_list

\* The document that holds exactly the registry r: three tables of arrays.
HoldsRegistry(d, r) ==
    /\ d.state = "json"
    /\ \A c \in Categories :
          /\ DOMAIN d[c] = DOMAIN r[c]
          /\ \A k \in DOMAIN r[c] : d[c][k].type = "array" /\ d[c][k].items = r[c][k]

\* C8: after a command that changed the registry and whose file write succeeded
\* the document's three tables equal the maps; every command that changes the
\* registry attempts the write; a command that attempts no write leaves the
\* document and the registry as they were.
C8_DocumentFollowsRegistry ==
    /\ cmd.write = "ok" => HoldsRegistry(doc, Registry)
    /\ (cmd.write = "none" /\ cmd.op # "load") => Registry = pre.registry
    /\ cmd.write = "none" => doc = pre.doc
    /\ reply \in SuccessReplies <=> cmd.write # "none"

\* A modify was written to the document, which holds a text-API entry.
C8_Witness ==
    /\ Ran("modify") /\ reply = "modified" /\ cmd.write = "ok"
    /\ DOMAIN text_api_list # {}
    /\ HoldsRegistry(doc, Registry)

\* C9: when the file write of a registry-changing command fails, the command's
\* reply states the failure instead of reporting success.
C9_WriteFailureReported ==
    cmd.write \in {"fail_untouched", "fail_truncated"} => reply \notin SuccessReplies

\* C10: loading what save wrote gives back the registry (same keys per map, same
\* ordered lists, lower-case keys), and a load turns a single-string value into
\* the one-element list holding it and an array into the list of its items.
C10_SaveLoadRoundTrip ==
    /\ load_api_config(save_api_config(Registry, doc, "ok")) = Registry
    /\ (cmd.op = "load" /\ doc.state = "json") =>
          \A c \in Categories :
              /\ DOMAIN Registry[c] = DOMAIN doc[c]
              /\ \A k \in DOMAIN doc[c] :
                    /\ IsLower(k)
                    /\ doc[c][k].type = "string" => Registry[c][k] = << doc[c][k].str >>
                    /\ doc[c][k].type = "array" => Registry[c][k] = doc[c][k].items

\* A restart loaded a document that an earlier command had saved: it holds a
\* three-URL list, which no document found at first start holds.
C10_Witness ==
    /\ cmd.op = "load" /\ doc.state = "json"
    /\ \E c \in Categories : \E k \in DOMAIN doc[c] : Len(doc[c][k].items) = 3
    /\ HoldsRegistry(doc, Registry)

\* The operations that resolve a trigger to content.
ResolvingOps == { "picture", "text", "view", "random", "random_text", "message", "servers" }

\* Replies that stand for an upstream request being issued or content being sent.
ResolvingReplies ==
    { "send_picture", "send_direct_image", "send_text", "fetch_media_from_api",
      "fetch_media_from_direct_url", "probe_servers" }

\* C11: a resolving operation (send-by-trigger, send-text-by-trigger, batch-send,
\* send-random, send-random-text, bare message, diagnostic fan-out) started with
\* the flag off issues no upstream request and sends no content: it yields the
\* disabled notice, or nothing at all for a bare message.
C11_FlagOffShortCircuits ==
    (~is_enabled /\ cmd.op \in ResolvingOps) =>
        /\ reply \notin ResolvingReplies
        /\ reply = IF cmd.op = "message" THEN "none" ELSE "plugin_disabled"
        /\ Registry = pre.registry /\ doc = pre.doc

\* The fan-out was refused with the flag off although a server trigger is registered.
C11_Witness ==
    /\ ~is_enabled /\ cmd.op = "servers" /\ reply = "plugin_disabled"
    /\ ServerTasks(Registry) # <<>>

C15_FirstApplicableRule ==
    (call.fn = "_parse_json_response" /\ result.done /\ call.data.type = "object") =>
        LET d == call.data
            nested == Has(d, "data") /\ Get(d, "data").type = "object"
            strings == { i \in DOMAIN d.items : NonBlankString(d.items[i][2]) }
        IN  result.value =
              IF Has(d, "hitokoto") /\ Has(d, "from")
              THEN Quote(Get(d, "hitokoto"), Get(d, "from"))
              ELSE IF Has(d, "text") THEN Get(d, "text")
              ELSE IF Has(d, "content") THEN Get(d, "content")
              ELSE IF nested /\ Has(Get(d, "data"), "text") THEN Get(Get(d, "data"), "text")
              ELSE IF nested /\ Has(Get(d, "data"), "content")
                   THEN Get(Get(d, "data"), "content")
              ELSE IF Has(d, "msg") THEN Get(d, "msg")
              ELSE IF strings # {}
                   THEN d.items[CHOOSE i \in strings : \A j \in strings : i <= j][2]
              ELSE Dump(d)

\* C17: every part _split_long_text returns is at most max_length long.
C17_PartsWithinLimit ==
    (call.fn = "_split_long_text" /\ result.done) =>
        \A i \in DOMAIN result.value : Len(result.value[i]) <= call.max_length

RECURSIVE Concat(_)
Concat(parts) == IF parts = <<>> THEN <<>> ELSE Head(parts) \o Concat(Tail(parts))

\* C18: the parts _split_long_text returns for a limit >= 1 are non-empty (for a
\* non-empty text) and concatenate to the text; a text longer than the limit
\* gives at least two parts, a text within the limit gives the text as one part.
C18_SplitLossless ==
    (call.fn = "_split_long_text" /\ result.done) =>
        /\ Concat(result.value) = call.text
        /\ call.text # <<>> => \A i \in DOMAIN result.value : result.value[i] # <<>>
        /\ Len(call.text) > call.max_length => Len(result.value) >= 2
        /\ Len(call.text) <= call.max_length => result.value = << call.text >>

\* C19: when the API answers 200 and the follow-up GET of at least one candidate
\* succeeds, _fetch_media_from_api returns one chain per succeeded candidate, in
\* candidate order, whatever way the other candidates failed.
C19_FailedCandidatesOnlyDropped ==
    (call.fn = "_fetch_media_from_api" /\ result.done /\ is_enabled
       /\ call.answer.outcome = "ok_200"
       /\ \E i \in DOMAIN call.answer.file_urls : call.answer.file_urls[i].outcome = "ok_200") =>
        LET succeeded == SelectSeq(call.answer.file_urls, LAMBDA c : c.outcome = "ok_200")
        IN  result.value =
              [i \in 1 .. Len(succeeded) |->
                 determine_media_type(succeeded[i].url, succeeded[i].content_type)]

\* C12: a batch-send with count n and r resolved items yields, for r = 0, only
\* the nothing-retrieved reply; for r > 0 and (n > 2 or r > 2), one grouped reply
\* whose sub-items are all r items, labelled by media kind and position; and
\* otherwise every one of the r items as a standalone reply, in resolution order.
C12_BatchPackaging ==
    view.pc = "done" =>
        LET n == view.count
            items == view.media_chains
            r == Len(items)
        IN  /\ r = 0 => view.out = << [kind |-> "plain", text |-> "nothing_retrieved"] >>
            /\ (r > 0 /\ (n > 2 \/ r > 2)) =>
                  /\ Len(view.out) = 1
                  /\ view.out[1].kind = "nodes"
                  /\ view.out[1].nodes =
                        [i \in 1 .. r |-> [name |-> << MediaLabel(items[i]), i >>,
                                            content |-> items[i]]]
            /\ (r > 0 /\ ~(n > 2 \/ r > 2)) =>
                  view.out = [i \in 1 .. r |-> [kind |-> "chain", content |-> items[i]]]

\* C13: a batch-send with count n > 2 all of whose requests succeeded yields one
\* grouped reply with at most n sub-items.
C13_GroupedAtMostCount ==
    (view.pc = "done" /\ view.count > 2 /\ view.all_ok) =>
        /\ Len(view.out) = 1
        /\ view.out[1].kind = "nodes"
        /\ Len(view.out[1].nodes) <= view.count

\* C16: whatever other handlers do while a batch-send awaits a fetch, the
\* batch-send does not end in an unhandled error: once it has ended it has
\* yielded media replies or the nothing-retrieved reply.
C16_NoUnhandledError ==
    /\ view.pc # "KeyError"
    /\ view.pc = "done" => view.out # <<>>

\* C20: the fan-out probes every server endpoint and reports each one; an
\* endpoint whose request failed (other status, timeout, transport error) counts
\* as a failure, one answered 200 as a success, and the two counts add up to the
\* number of endpoints probed.
C20_FanOutCountsFailures ==
    servers.pc = "done" =>
        LET failed == { i \in DOMAIN servers.tasks :
                          servers.answers[i] \notin { "ok_200", "ok_200_long" } }
        IN  /\ Len(servers.results) = Len(servers.tasks)
            /\ \A i \in DOMAIN servers.tasks :
                  /\ servers.results[i].url = servers.tasks[i].url
                  /\ servers.results[i].trigger = servers.tasks[i].trigger
                  /\ servers.results[i].success <=> i \notin failed
            /\ servers.failed_count = Cardinality(failed)
            /\ servers.success_count = Len(servers.tasks) - Cardinality(failed)
            /\ servers.success_count + servers.failed_count = Len(servers.tasks)

\* C22: modify and delete act on one category only, the first of media-API,
\* direct-URL, text-API whose map holds the trigger: the other categories and
\* the other triggers keep their lists, a modify replaces exactly the index-th
\* URL, and an index outside the list of that first category changes nothing
\* and is answered with the range error, whatever lists later categories hold.
C22_FirstCategoryOnly ==
    (cmd.op \in { "modify", "delete" } /\ reply # "plugin_disabled") =>
        LET k == Lower(cmd.trigger)
            first == FirstCategory(pre.registry, k)
            i == cmd.index.value
        IN  IF first = "none"
            THEN reply = "trigger_not_found" /\ Registry = pre.registry /\ doc = pre.doc
            ELSE LET old == pre.registry[first][k]
                     fits == 1 <= i /\ i <= Len(old)
                 IN  /\ \A c \in Categories \ {first} : Registry[c] = pre.registry[c]
                     /\ \A x \in DOMAIN pre.registry[first] \ {k} :
                           x \in DOMAIN Registry[first]
                             /\ Registry[first][x] = pre.registry[first][x]
                     /\ DOMAIN Registry[first] \subseteq DOMAIN pre.registry[first]
                     /\ (cmd.index.given /\ ~fits) =>
                           /\ reply = "index_out_of_range"
                           /\ Registry = pre.registry /\ doc = pre.doc
                     /\ (cmd.op = "modify" /\ fits) =>
                           /\ reply = "modified"
                           /\ k \in DOMAIN Registry[first]
                           /\ Len(Registry[first][k]) = Len(old)
                           /\ \A n \in 1 .. Len(old) :
                                 Registry[first][k][n] = IF n = i THEN cmd.url ELSE old[n]
                     /\ (cmd.op = "delete" /\ (fits \/ ~cmd.index.given)) =>
                           /\ reply = "deleted"
                           /\ Registry[first] # pre.registry[first]

\* A modify was refused for its index although a later category holds a list
\* of the same trigger for which the index fits.
C22_Witness ==
    /\ cmd.op = "modify" /\ reply = "index_out_of_range"
    /\ LET k == Lower(cmd.trigger)
           first == FirstCategory(pre.registry, k)
       IN  /\ first # "none"
           /\ \E c \in Categories \ {first} :
                 /\ k \in DOMAIN pre.registry[c]
                 /\ cmd.index.value >= 1
                 /\ cmd.index.value <= Len(pre.registry[c][k])

\* The branch of on_message a message belongs to when its lower-cased text is
\* compared for equality: the first map holding it as a key, else the literal
\* it equals, else none.
ExactBranch(r, m) ==
    IF m \in DOMAIN r.api_list THEN "api_list"
    ELSE IF m \in DOMAIN r.direct_url_list THEN "direct_url_list"
    ELSE IF m \in DOMAIN r.text_api_list THEN "text_api_list"
    ELSE IF m = RandomPictureCommand THEN "random_picture"
    ELSE IF m = RandomTextCommand THEN "random_text"
    ELSE IF m = ListServersCommand THEN "list_servers"
    ELSE "none"

\* C21: with the feature on, a message runs at most one resolution: its
\* lower-cased text is compared for equality with the keys of the media-API
\* map, then of the direct-URL map, then of the text-API map, and only then
\* with the three literals; the first match decides what is sent, and the event
\* is stopped exactly when something matched.
C21_DispatchOrder ==
    (cmd.op = "message" /\ is_enabled) =>
        LET branch == ExactBranch(pre.registry, Lower(cmd.trigger))
        IN  /\ event.matched = branch
            /\ event.stopped <=> branch # "none"
            /\ branch = "api_list" => reply = "send_picture"
            /\ branch = "direct_url_list" => reply = "send_direct_image"
            /\ branch = "text_api_list" => reply = "send_text"
            /\ branch = "random_picture" =>
                  reply \in { "list_empty", "send_picture", "send_direct_image", "send_text" }
            /\ branch = "random_text" => reply \in { "text_list_empty", "send_text" }
            /\ branch = "list_servers" => reply \in { "no_server_apis", "probe_servers" }
            /\ branch = "none" => reply = "no_trigger_matched"

====
